---- MODULE Spec2Model ----
(***************************************************************************)
(* FileDatabase (the queueing IndexedDB wrapper of the file manager): the  *)
(* store lifecycle (init / initWithRetry), the operation queue             *)
(* (queueOperation / executeQueuedOperations / waitForUpgrade), the file   *)
(* repository and the association graph built on it.                       *)
(*                                                                         *)
(* JavaScript runs one task at a time, so every action is one run of code  *)
(* between two suspension points.  A suspension point is an await on the   *)
(* store (openDB, put, get, getAll, delete), on a timer (the retry delay,  *)
(* the 100 ms poll of waitForUpgrade) or on the microtask that follows     *)
(* `await this.waitForUpgrade()`.  Microtasks run before the next timer or *)
(* store event, which is what MacroTask states.                            *)
(*                                                                         *)
(* The operators below take the state as a record s (one field per         *)
(* variable) and return the state after the code has run; Apply assigns    *)
(* the result to the variables.                                            *)
(***************************************************************************)
EXTENDS Integers, Sequences, FiniteSets, TLC

VARIABLES
  db,              \* this.db: "null" or "conn" (an open connection)
  initialized,     \* this.initialized
  isInitializing,  \* this.isInitializing
  initPromise,     \* this.initPromise: "null" or "pending"
  operationQueue,  \* this.operationQueue: sequence of tasks
  retryCount,      \* this.retryCount
  upgradeLock,     \* this.upgradeLock
  files,           \* the 'files' object store: id -> entry, for the stored ids
  disk,            \* the database on disk: its version, whether 'files' exists, its indexes
  ioq,             \* store requests in flight, in the order they were issued
  mq,              \* tasks past waitForUpgrade whose queueOperation runs in the next microtask
  initPc,          \* where the async executor of init() is suspended
  drainCur,        \* the operation executeQueuedOperations is awaiting
  initCatch,       \* the task whose reject is attached by init().catch(reject)
  initAwait,       \* the callers of init() awaiting initPromise
  kind, arg,       \* per call: the API method and its arguments
  status, err, ret,\* per call: its promise, the error it rejected with, the value it resolved with
  loc,             \* per call: the local variables of a composite operation body
  tpc, treq,       \* per task: its position, and the store request of a leaf operation
  log,             \* the calls in the order their operation bodies were started
  pre,             \* per call that writes the association graph: the store when its body started
  overlapped,      \* the calls whose body ran while another call's body was running
  early,           \* the calls submitted while the store was not Ready
  afterClose,      \* the calls submitted while the handle was released by a close
  afterFail,       \* the calls submitted in the uninitialized state a permanent failure left
  buffered,        \* the tasks that were pushed onto operationQueue
  edited,          \* per call made by handleSave or handleRename: the entry it works on
  handler,         \* per call: the handler of the user interface that made it
  failures,        \* initializations that failed permanently so far
  batched,         \* the first three calls were made in one run of code
  rawRefs,         \* a caller's put has stored an association to an absent entry
  chains,          \* open/retry chains in progress
  attempts,        \* openDB calls made by the current (or last) open/retry chain
  closes           \* blocking / terminated events so far

vars == <<db, initialized, isInitializing, initPromise, operationQueue, retryCount,
          upgradeLock, files, disk, ioq, mq, initPc, drainCur, initCatch, initAwait,
          kind, arg, status, err, ret, loc, tpc, treq, log, pre, overlapped, early,
          afterClose, afterFail, buffered, edited, handler, failures, batched, rawRefs, chains,
          attempts, closes>>

----------------------------------------------------------------------------
(* Program constants and the bounds of the model *)

maxRetries == 3
version == 2

MaxCalls == 2            \* calls submitted in a run of the full model
MaxQueueCalls == 3       \* calls submitted in a run of the queue model
MaxGraphCalls == 2       \* calls submitted in a run of the graph model
MaxCloses == 1           \* blocking / terminated events in a run
MaxRaceCalls == 3        \* calls submitted in a run of the race model

IdOrder == <<"h1", "j1", "j2">>     \* the ids, in key order (getAll returns key order)
Ids == {IdOrder[i] : i \in DOMAIN IdOrder}
Names == {"a", "b"}

Max2(a, b) == IF a >= b THEN a ELSE b
CallBound == Max2(Max2(MaxCalls, MaxRaceCalls), Max2(MaxQueueCalls, MaxGraphCalls))
Calls == 1..CallBound
MaxSlots == 2 + CallBound    \* an association list holds at most 2 ids plus one per call
Tasks == Calls \X (0..MaxSlots)   \* <<c, 0>>: the operation of call c; <<c, k>>: a repository call made by its body
NoTask == <<0, 0>>
Top(c) == <<c, 0>>
IsTop(t) == t[2] = 0

Leaf == {"addFile", "getFile", "getAllFiles"}
Composite == {"deleteFile", "getStorageUsage", "associateFiles", "removeAssociation",
              "getAssociatedFiles"}

\* A FileEntry (lines 3-12).  data is the payload, as a token; createdAt is a time in
\* ticks.  An entry without associatedFiles has the empty list: the code reads the
\* field as `associatedFiles || []` and `associatedFiles?.includes`.
NoEntry == [id |-> "none", name |-> "none", type |-> "none", size |-> 0,
            compressedSize |-> 0, data |-> "none", createdAt |-> 0, assoc |-> <<>>]
NoReq == [id |-> "none", op |-> "none", entry |-> NoEntry]
NoArg == [id |-> "none", entry |-> NoEntry, id2 |-> "none"]
NoLoc == [step |-> "start", snap |-> <<>>, idx |-> 0, left |-> {}]

\* the MIME type the upload gives an entry: h1 is an HTML container, j1 and j2 are
\* JSON data files
TypeOf(i) == IF i = "h1" THEN "text/html" ELSE "application/json"
Entry(i, n, a) == [id |-> i, name |-> n, type |-> TypeOf(i), size |-> 2,
                   compressedSize |-> 1, data |-> "d0", createdAt |-> 0, assoc |-> a]
Sized(e, sz, cz) == [e EXCEPT !.size = sz, !.compressedSize = cz]
Req(o, i, e) == [id |-> i, op |-> o, entry |-> e]

Includes(seq, x) == \E n \in 1..Len(seq) : seq[n] = x
\* filter with the test inverted (=== for !==)
FilterKeep(seq, x) == SelectSeq(seq, LAMBDA y : y = x)
Filter(seq, x) == SelectSeq(seq, LAMBDA y : y # x)
Min(S) == CHOOSE m \in S : \A n \in S : m <= n

----------------------------------------------------------------------------
(* The object store *)

EmptyStore == [i \in {} |-> NoEntry]
\* put as a field-level update: an existing record keeps the fields of the old one
\* but for the name
StorePutMerge(f, e) ==
  [i \in DOMAIN f \cup {e.id} |->
     IF i = e.id THEN (IF i \in DOMAIN f THEN [f[i] EXCEPT !.name = e.name] ELSE e)
     ELSE f[i]]
\* put that merges the association list of the record with the stored one
StorePutUnion(f, e) ==
  [i \in DOMAIN f \cup {e.id} |->
     IF i = e.id
     THEN (IF i \in DOMAIN f
           THEN [e EXCEPT !.assoc = f[i].assoc
                                    \o SelectSeq(@, LAMBDA y : ~Includes(f[i].assoc, y))]
           ELSE e)
     ELSE f[i]]
StorePut(f, e) == [i \in DOMAIN f \cup {e.id} |-> IF i = e.id THEN e ELSE f[i]]
StoreDelete(f, i) == [j \in DOMAIN f \ {i} |-> f[j]]
StoreGet(f, i) == IF i \in DOMAIN f THEN <<f[i]>> ELSE <<>>
StoreGetAll(f) ==
  LET ks == SelectSeq(IdOrder, LAMBDA i : i \in DOMAIN f)
  IN [n \in 1..Len(ks) |-> f[ks[n]]]

StoreApply(f, q) ==
  CASE q.op = "put" -> StorePut(f, q.entry)
    [] q.op = "delete" -> StoreDelete(f, q.id)
    [] OTHER -> f

StoreResult(f, q) ==
  CASE q.op = "get" -> StoreGet(f, q.id)
    [] q.op = "getAll" -> StoreGetAll(f)
    [] OTHER -> <<>>

\* The database on disk.  Version 1 of the application created 'files' with three
\* indexes; this version creates it with four (lines 97-103)
IndexNames == {"name", "type", "createdAt", "associatedFiles"}
NoDatabase == [version |-> 0, store |-> FALSE, indexes |-> {}]
V1Schema == [version |-> 1, store |-> TRUE, indexes |-> {"name", "type", "createdAt"}]
V2Schema == [version |-> version, store |-> TRUE, indexes |-> IndexNames]

\* the upgrade callback, lines 95-115
upgrade(d) ==
  IF ~d.store THEN [d EXCEPT !.store = TRUE, !.indexes = IndexNames] ELSE d

\* openDB(name, version, {upgrade}) succeeding: the upgrade runs when the database
\* on disk is older than the version asked for
openDB(d) ==
  IF d.version < version THEN [upgrade(d) EXCEPT !.version = version] ELSE d

----------------------------------------------------------------------------
(* The state as a record *)

S == [db |-> db, initialized |-> initialized, isInitializing |-> isInitializing,
      initPromise |-> initPromise, operationQueue |-> operationQueue,
      retryCount |-> retryCount, upgradeLock |-> upgradeLock, files |-> files,
      disk |-> disk,
      ioq |-> ioq, mq |-> mq, initPc |-> initPc, drainCur |-> drainCur,
      initCatch |-> initCatch, initAwait |-> initAwait, kind |-> kind, arg |-> arg,
      status |-> status, err |-> err, ret |-> ret, loc |-> loc, tpc |-> tpc,
      treq |-> treq, log |-> log, pre |-> pre, overlapped |-> overlapped,
      early |-> early, afterClose |-> afterClose, afterFail |-> afterFail,
      buffered |-> buffered, edited |-> edited, handler |-> handler, failures |-> failures,
      batched |-> batched,
      rawRefs |-> rawRefs, chains |-> chains, attempts |-> attempts, closes |-> closes]

Apply(n) ==
  /\ db' = n.db
  /\ initialized' = n.initialized
  /\ isInitializing' = n.isInitializing
  /\ initPromise' = n.initPromise
  /\ operationQueue' = n.operationQueue
  /\ retryCount' = n.retryCount
  /\ upgradeLock' = n.upgradeLock
  /\ files' = n.files
  /\ disk' = n.disk
  /\ ioq' = n.ioq
  /\ mq' = n.mq
  /\ initPc' = n.initPc
  /\ drainCur' = n.drainCur
  /\ initCatch' = n.initCatch
  /\ initAwait' = n.initAwait
  /\ kind' = n.kind
  /\ arg' = n.arg
  /\ status' = n.status
  /\ err' = n.err
  /\ ret' = n.ret
  /\ loc' = n.loc
  /\ tpc' = n.tpc
  /\ treq' = n.treq
  /\ log' = n.log
  /\ pre' = n.pre
  /\ overlapped' = n.overlapped
  /\ early' = n.early
  /\ afterClose' = n.afterClose
  /\ afterFail' = n.afterFail
  /\ buffered' = n.buffered
  /\ edited' = n.edited
  /\ handler' = n.handler
  /\ failures' = n.failures
  /\ batched' = n.batched
  /\ rawRefs' = n.rawRefs
  /\ chains' = n.chains
  /\ attempts' = n.attempts
  /\ closes' = n.closes


----------------------------------------------------------------------------
(* Promises and tasks *)

\* resolve / reject of the promise of call c: a settled promise ignores later settlements
Settle(s, c, outcome, e, r) ==
  IF s.status[c] = "pending"
  THEN [s EXCEPT !.status[c] = outcome, !.err[c] = e, !.ret[c] = r]
  ELSE s

\* The promise returned by operation() of task t has settled: if the drain loop
\* awaits it (line 38), the loop goes on
TaskDone(s, t) ==
  LET s1 == [s EXCEPT !.tpc[t] = "done", !.treq[t] = NoReq]
  IN IF s1.drainCur = t
     THEN [s1 EXCEPT !.drainCur = NoTask, !.initPc = "loop"]
     ELSE s1

\* The body of call c returns or throws, with a catch block in the drain loop that
\* rejects the operation and throws the error again (after line 41): the error
\* reaches the catch block of init (lines 145-151)
BodyEndRethrow(s, c, outcome, e, r) ==
  LET s1 == TaskDone(Settle([s EXCEPT !.loc[c] = NoLoc, !.pre[c] = EmptyStore],
                            c, outcome, e, r), Top(c))
  IN IF outcome = "rejected" /\ s.drainCur = Top(c)
     THEN [s1 EXCEPT !.db = "null", !.initialized = FALSE, !.isInitializing = FALSE,
                     !.initPromise = "null", !.initPc = "idle", !.chains = @ - 1,
                     !.initCatch = NoTask, !.initAwait = {},
                     !.status = [d \in Calls |->
                                   IF d \in s1.initAwait /\ s1.status[d] = "pending"
                                   THEN "rejected" ELSE s1.status[d]],
                     !.err = [d \in Calls |->
                                IF d \in s1.initAwait /\ s1.status[d] = "pending"
                                THEN e ELSE s1.err[d]]]
     ELSE s1

\* The body of call c returns or throws
BodyEnd(s, c, outcome, e, r) ==
  TaskDone(Settle([s EXCEPT !.loc[c] = NoLoc, !.pre[c] = EmptyStore], c, outcome, e, r),
           Top(c))

\* waitForUpgrade, lines 65-77: return at once when the lock is free, else poll
waitForUpgrade(s, t) ==
  IF ~s.upgradeLock
  THEN [s EXCEPT !.tpc[t] = "micro", !.mq = Append(@, t)]
  ELSE [s EXCEPT !.tpc[t] = "poll"]

\* A repository call made by the body of call c (this.getFile(..), this.addFile(..), ..)
CallNested(s, t, q) == waitForUpgrade([s EXCEPT !.treq[t] = q], t)

\* A store request issued by task t: db.put / db.get / db.getAll / db.delete
Issue(s, t) == [s EXCEPT !.tpc[t] = "io", !.ioq = Append(@, [task |-> t, ok |-> TRUE])]

----------------------------------------------------------------------------
(* The composite operation bodies.  Each operator resumes the body of call c *)
(* at loc[c].step with r, the value of the await it was suspended on.        *)

\* deleteFile, lines 182-199
\* deleteFile with the test of line 189 inverted (=== for !==): the rewritten list
\* keeps the deleted id and drops the others
deleteFileLoopInverted(s, c) ==
  LET l == s.loc[c]
      id == s.arg[c].id
      hits == {i \in l.idx..Len(l.snap) : Includes(l.snap[i].assoc, id)}
  IN IF hits # {}
     THEN LET i == Min(hits)
              file == l.snap[i]
          IN CallNested([s EXCEPT !.loc[c].idx = i], <<c, 1>>,
                        Req("put", file.id,
                            [file EXCEPT !.assoc = SelectSeq(@, LAMBDA y : y = id)]))
     ELSE IF s.db = "null"
          THEN BodyEnd(s, c, "rejected", "typeError", <<>>)
          ELSE Issue([s EXCEPT !.loc[c].step = "delete",
                               !.treq[Top(c)] = Req("delete", id, NoEntry)], Top(c))

\* deleteFile without lines 187-195: the entry is deleted and the lists that name it
\* are left as they are
deleteFileNoCascade(s, c) ==
  IF s.db = "null"
  THEN BodyEnd(s, c, "rejected", "typeError", <<>>)
  ELSE Issue([s EXCEPT !.loc[c].step = "delete",
                       !.treq[Top(c)] = Req("delete", s.arg[c].id, NoEntry)], Top(c))

\* deleteFile that requires the entry to exist: it throws when the snapshot of line
\* 187 does not hold the id
deleteFileLoopStrict(s, c) ==
  LET l == s.loc[c]
      id == s.arg[c].id
      hits == {i \in l.idx..Len(l.snap) : Includes(l.snap[i].assoc, id)}
  IN IF \A i \in 1..Len(l.snap) : l.snap[i].id # id
     THEN BodyEnd(s, c, "rejected", "notFound", <<>>)
     ELSE IF hits # {}
     THEN LET i == Min(hits)
              file == l.snap[i]
          IN CallNested([s EXCEPT !.loc[c].idx = i], <<c, 1>>,
                        Req("put", file.id, [file EXCEPT !.assoc = Filter(@, id)]))
     ELSE IF s.db = "null"
          THEN BodyEnd(s, c, "rejected", "typeError", <<>>)
          ELSE Issue([s EXCEPT !.loc[c].step = "delete",
                               !.treq[Top(c)] = Req("delete", id, NoEntry)], Top(c))

deleteFileLoop(s, c) ==
  LET l == s.loc[c]
      id == s.arg[c].id
      hits == {i \in l.idx..Len(l.snap) : Includes(l.snap[i].assoc, id)}
  IN IF hits # {}
     THEN LET i == Min(hits)
              file == l.snap[i]
          IN CallNested([s EXCEPT !.loc[c].idx = i], <<c, 1>>,
                        Req("put", file.id, [file EXCEPT !.assoc = Filter(@, id)]))
     ELSE IF s.db = "null"
          THEN BodyEnd(s, c, "rejected", "typeError", <<>>)
          ELSE Issue([s EXCEPT !.loc[c].step = "delete",
                               !.treq[Top(c)] = Req("delete", id, NoEntry)], Top(c))

deleteFile(s, c, r) ==
  LET l == s.loc[c]
  IN CASE l.step = "start" ->
            IF s.db = "null"
            THEN BodyEnd(s, c, "rejected", "notInit", <<>>)
            ELSE CallNested([s EXCEPT !.tpc[Top(c)] = "body", !.loc[c].step = "files"],
                            <<c, 1>>, Req("getAll", "none", NoEntry))
       [] l.step = "files" ->
            deleteFileLoop([s EXCEPT !.loc[c].snap = r, !.loc[c].idx = 1,
                                     !.loc[c].step = "cascade"], c)
       [] l.step = "cascade" ->
            deleteFileLoop([s EXCEPT !.loc[c].idx = @ + 1], c)
       [] OTHER -> BodyEnd(s, c, "resolved", "none", <<>>)

\* the reduce with file.size added to both sums
RECURSIVE reduceSizeOnly(_, _)
reduceSizeOnly(fs, acc) ==
  IF fs = <<>> THEN acc
  ELSE reduceSizeOnly(Tail(fs), [total |-> acc.total + Head(fs).size,
                                 compressed |-> acc.compressed + Head(fs).size])

\* files.reduce(..., {total: 0, compressed: 0}), lines 206-212
RECURSIVE reduce(_, _)
reduce(fs, acc) ==
  IF fs = <<>> THEN acc
  ELSE reduce(Tail(fs), [total |-> acc.total + Head(fs).size,
                         compressed |-> acc.compressed + Head(fs).compressedSize])

\* getStorageUsage, lines 201-214
getStorageUsage(s, c, r) ==
  LET l == s.loc[c]
  IN CASE l.step = "start" ->
            IF s.db = "null"
            THEN BodyEnd(s, c, "rejected", "notInit", <<>>)
            ELSE CallNested([s EXCEPT !.tpc[Top(c)] = "body", !.loc[c].step = "files"],
                            <<c, 1>>, Req("getAll", "none", NoEntry))
       [] OTHER -> BodyEnd(s, c, "resolved", "none",
                           <<reduce(r, [total |-> 0, compressed |-> 0])>>)

\* associateFiles, lines 216-232
\* associateFiles without line 225: the data file is fetched but not required to exist
associateFilesUnchecked(s, c, r) ==
  LET l == s.loc[c]
      a == s.arg[c]
  IN CASE l.step = "start" ->
            IF s.db = "null"
            THEN BodyEnd(s, c, "rejected", "notInit", <<>>)
            ELSE CallNested([s EXCEPT !.tpc[Top(c)] = "body", !.loc[c].step = "html"],
                            <<c, 1>>, Req("get", a.id, NoEntry))
       [] l.step = "html" ->
            IF r = <<>>
            THEN BodyEnd(s, c, "rejected", "htmlNotFound", <<>>)
            ELSE CallNested([s EXCEPT !.loc[c].snap = r, !.loc[c].step = "json"],
                            <<c, 1>>, Req("get", a.id2, NoEntry))
       [] l.step = "json" ->
            LET htmlFile == l.snap[1]
            IN CallNested([s EXCEPT !.loc[c].step = "put"], <<c, 1>>,
                          Req("put", htmlFile.id,
                              [htmlFile EXCEPT !.assoc = Append(@, a.id2)]))
       [] OTHER -> BodyEnd(s, c, "resolved", "none", <<>>)

associateFiles(s, c, r) ==
  LET l == s.loc[c]
      a == s.arg[c]
  IN CASE l.step = "start" ->
            IF s.db = "null"
            THEN BodyEnd(s, c, "rejected", "notInit", <<>>)
            ELSE CallNested([s EXCEPT !.tpc[Top(c)] = "body", !.loc[c].step = "html"],
                            <<c, 1>>, Req("get", a.id, NoEntry))
       [] l.step = "html" ->
            IF r = <<>>
            THEN BodyEnd(s, c, "rejected", "htmlNotFound", <<>>)
            ELSE CallNested([s EXCEPT !.loc[c].snap = r, !.loc[c].step = "json"],
                            <<c, 1>>, Req("get", a.id2, NoEntry))
       [] l.step = "json" ->
            IF r = <<>>
            THEN BodyEnd(s, c, "rejected", "jsonNotFound", <<>>)
            ELSE LET htmlFile == l.snap[1]
                 IN CallNested([s EXCEPT !.loc[c].step = "put"], <<c, 1>>,
                               Req("put", htmlFile.id,
                                   [htmlFile EXCEPT !.assoc = Append(@, a.id2)]))
       [] OTHER -> BodyEnd(s, c, "resolved", "none", <<>>)

\* removeAssociation, lines 234-247
removeAssociation(s, c, r) ==
  LET l == s.loc[c]
      a == s.arg[c]
  IN CASE l.step = "start" ->
            IF s.db = "null"
            THEN BodyEnd(s, c, "rejected", "notInit", <<>>)
            ELSE CallNested([s EXCEPT !.tpc[Top(c)] = "body", !.loc[c].step = "html"],
                            <<c, 1>>, Req("get", a.id, NoEntry))
       [] l.step = "html" ->
            IF r = <<>>
            THEN BodyEnd(s, c, "rejected", "htmlNotFound", <<>>)
            ELSE LET htmlFile == r[1]
                 IN CallNested([s EXCEPT !.loc[c].step = "put"], <<c, 1>>,
                               Req("put", htmlFile.id,
                                   [htmlFile EXCEPT !.assoc = Filter(@, a.id2)]))
       [] OTHER -> BodyEnd(s, c, "resolved", "none", <<>>)

\* getAssociatedFiles, lines 249-262: Promise.all starts one getFile per associated
\* id, in one run of code, and resolves when the last of them has resolved
RECURSIVE FanOut(_, _, _, _)
FanOut(s, c, ids, k) ==
  IF k > Len(ids) THEN s
  ELSE FanOut(CallNested(s, <<c, k>>, Req("get", ids[k], NoEntry)), c, ids, k + 1)

\* getAssociatedFiles with Promise.race in place of Promise.all (line 257): the body
\* returns with the first getFile that resolves
getAssociatedFilesRace(s, c, k, r) ==
  LET l == s.loc[c]
  IN CASE l.step = "start" ->
            IF s.db = "null"
            THEN BodyEnd(s, c, "rejected", "notInit", <<>>)
            ELSE CallNested([s EXCEPT !.tpc[Top(c)] = "body", !.loc[c].step = "file"],
                            <<c, 1>>, Req("get", s.arg[c].id, NoEntry))
       [] l.step = "file" ->
            IF r = <<>> \/ r[1].assoc = <<>>
            THEN BodyEnd(s, c, "resolved", "none", <<>>)
            ELSE LET ids == r[1].assoc
                 IN FanOut([s EXCEPT !.loc[c].step = "all",
                                     !.loc[c].snap = [n \in 1..Len(ids) |-> <<>>],
                                     !.loc[c].left = 1..Len(ids)], c, ids, 1)
       [] OTHER -> BodyEnd(s, c, "resolved", "none", r)

getAssociatedFiles(s, c, k, r) ==
  LET l == s.loc[c]
  IN CASE l.step = "start" ->
            IF s.db = "null"
            THEN BodyEnd(s, c, "rejected", "notInit", <<>>)
            ELSE CallNested([s EXCEPT !.tpc[Top(c)] = "body", !.loc[c].step = "file"],
                            <<c, 1>>, Req("get", s.arg[c].id, NoEntry))
       [] l.step = "file" ->
            IF r = <<>> \/ r[1].assoc = <<>>
            THEN BodyEnd(s, c, "resolved", "none", <<>>)
            ELSE LET ids == r[1].assoc
                 IN FanOut([s EXCEPT !.loc[c].step = "all",
                                     !.loc[c].snap = [n \in 1..Len(ids) |-> <<>>],
                                     !.loc[c].left = 1..Len(ids)], c, ids, 1)
       [] OTHER ->
            LET snap == [l.snap EXCEPT ![k] = r]
                left == l.left \ {k}
                RECURSIVE Flat(_)
                Flat(n) == IF n > Len(snap) THEN <<>> ELSE snap[n] \o Flat(n + 1)
            IN IF left = {}
               THEN BodyEnd(s, c, "resolved", "none", Flat(1))
               ELSE [s EXCEPT !.loc[c].snap = snap, !.loc[c].left = left]

\* Resume with a try/catch around the cascade rewrite of deleteFile (line 190) that
\* swallows the exception: the loop goes on and the entry is deleted
ResumeCatch(s, c, k, ok, e, r) ==
  IF ~ok /\ ~(s.kind[c] = "deleteFile" /\ s.loc[c].step = "cascade")
  THEN BodyEnd(s, c, "rejected", e, <<>>)
  ELSE CASE s.kind[c] = "deleteFile" -> deleteFile(s, c, r)
         [] s.kind[c] = "getStorageUsage" -> getStorageUsage(s, c, r)
         [] s.kind[c] = "associateFiles" -> associateFiles(s, c, r)
         [] s.kind[c] = "removeAssociation" -> removeAssociation(s, c, r)
         [] OTHER -> getAssociatedFiles(s, c, k, r)

\* The body of call c resumes after the await on its repository call k: with the
\* value r, or with the exception e, which no body catches
Resume(s, c, k, ok, e, r) ==
  IF ~ok THEN BodyEnd(s, c, "rejected", e, <<>>)
  ELSE CASE s.kind[c] = "deleteFile" -> deleteFile(s, c, r)
         [] s.kind[c] = "getStorageUsage" -> getStorageUsage(s, c, r)
         [] s.kind[c] = "associateFiles" -> associateFiles(s, c, r)
         [] s.kind[c] = "removeAssociation" -> removeAssociation(s, c, r)
         [] OTHER -> getAssociatedFiles(s, c, k, r)

\* The promise of task t settles.  The operation of a call settles the call's
\* promise; a repository call made by a body resumes that body, if it still runs.
TaskEnd(s, t, ok, e, r) ==
  LET c == t[1]
  IN IF IsTop(t)
     THEN IF s.kind[c] \in Composite
          THEN Resume(s, c, 0, ok, e, r)
          ELSE BodyEnd(s, c, IF ok THEN "resolved" ELSE "rejected", e, r)
     ELSE LET s1 == TaskDone(s, t)
          IN IF s1.tpc[Top(c)] = "body" /\ (s1.loc[c].step # "all" \/ t[2] \in s1.loc[c].left)
             THEN Resume(s1, c, t[2], ok, e, r)
             ELSE s1

\* reject() of the promise queueOperation returned for task t, which stays queued
RejectQueued(s, t, e) ==
  LET c == t[1]
  IN IF IsTop(t)
     THEN Settle(s, c, "rejected", e, <<>>)
     ELSE IF s.tpc[Top(c)] = "body"
          THEN Resume(s, c, t[2], FALSE, e, <<>>)
          ELSE s

\* addFile / getFile / getAllFiles bodies, lines 160-163, 168-171, 176-179
leafBody(s, t) ==
  IF s.db = "null"
  THEN TaskEnd(s, t, FALSE, "notInit", <<>>)
  ELSE Issue(s, t)

\* The operation body of task t starts (operation(), lines 38 and 49)
Started(s, c) ==
  LET running == {d \in Calls : s.tpc[Top(d)] \in {"body", "io"}}
  IN [s EXCEPT !.log = Append(@, c),
               !.pre[c] = IF s.kind[c] \in {"deleteFile", "associateFiles",
                                             "removeAssociation"}
                          THEN s.files ELSE @,
               !.overlapped = IF running = {} THEN @ ELSE @ \cup running \cup {c}]

operation(s, t) ==
  LET c == t[1]
  IN IF IsTop(t)
     THEN IF s.kind[c] \in Composite
          THEN Resume(Started(s, c), c, 0, TRUE, "none", <<>>)
          ELSE leafBody(Started(s, c), t)
     ELSE leafBody(s, t)

----------------------------------------------------------------------------
(* The store lifecycle and the operation queue *)

SettleAll(s, W, outcome, e) ==
  [s EXCEPT !.status = [c \in Calls |-> IF c \in W /\ s.status[c] = "pending"
                                         THEN outcome ELSE s.status[c]],
            !.err = [c \in Calls |-> IF c \in W /\ s.status[c] = "pending"
                                      THEN e ELSE s.err[c]]]

\* init: resolve() and the finally block, lines 144 and 149-151
initResolved(s) ==
  SettleAll([s EXCEPT !.isInitializing = FALSE, !.initPromise = "null",
                      !.initPc = "idle", !.chains = @ - 1,
                      !.initCatch = NoTask, !.initAwait = {}],
            s.initAwait, "resolved", "none")

\* init without its finally block (lines 149-151): after a failure isInitializing
\* and initPromise stay as they were
initRejectedNoFinally(s) ==
  LET s1 == SettleAll([s EXCEPT !.db = "null", !.initialized = FALSE,
                                !.initPc = "idle", !.chains = @ - 1, !.failures = @ + 1,
                                !.initCatch = NoTask, !.initAwait = {}],
                      s.initAwait, "rejected", "init")
  IN IF s.initCatch = NoTask THEN s1 ELSE RejectQueued(s1, s.initCatch, "init")

\* init: the catch and finally blocks, lines 145-151; the rejection reaches the
\* callers of init() and the reject that queueOperation attached (line 60)
initRejected(s) ==
  LET s1 == SettleAll([s EXCEPT !.db = "null", !.initialized = FALSE,
                                !.isInitializing = FALSE, !.initPromise = "null",
                                !.initPc = "idle", !.chains = @ - 1, !.failures = @ + 1,
                                !.initCatch = NoTask, !.initAwait = {}],
                      s.initAwait, "rejected", "init")
  IN IF s.initCatch = NoTask THEN s1 ELSE RejectQueued(s1, s.initCatch, "init")

\* executeQueuedOperations, lines 33-45: one iteration of the loop, up to the await
\* on the operation; after the last one init resolves (line 144)
\* executeQueuedOperations with pop() in place of shift(): the newest first
executeQueuedOperationsLifo(s) ==
  IF s.operationQueue = <<>>
  THEN initResolved(s)
  ELSE LET n == Len(s.operationQueue)
           t == s.operationQueue[n]
       IN operation([s EXCEPT !.operationQueue = SubSeq(@, 1, n - 1), !.drainCur = t,
                              !.initPc = "drain"], t)

executeQueuedOperations(s) ==
  IF s.operationQueue = <<>>
  THEN initResolved(s)
  ELSE LET t == Head(s.operationQueue)
       IN operation([s EXCEPT !.operationQueue = Tail(@), !.drainCur = t,
                              !.initPc = "drain"], t)

\* initWithRetry up to its await on openDB, lines 80-82
initWithRetry(s) == [s EXCEPT !.upgradeLock = TRUE, !.initPc = "open", !.attempts = @ + 1]

\* init, lines 132-156, up to the await on openDB; c is the call that awaits the
\* returned promise (0: the caller only attaches a catch, line 60)
init(s, c) ==
  LET W == IF c = 0 THEN {} ELSE {c}
  IN IF s.initialized
     THEN IF c = 0 THEN s ELSE Settle(s, c, "resolved", "none", <<>>)
     ELSE IF s.isInitializing
          THEN IF s.initPromise = "null" /\ c # 0
               THEN Settle(s, c, "resolved", "none", <<>>)
               ELSE [s EXCEPT !.initAwait = @ \cup W]
          ELSE initWithRetry([s EXCEPT !.isInitializing = TRUE, !.initPromise = "pending",
                                       !.chains = @ + 1, !.attempts = 0,
                                       !.initAwait = @ \cup W])

\* queueOperation, lines 47-63
\* queueOperation that buffers the operation before the Ready test, so that an
\* operation run at once is also left in the buffer
queueOperationKeep(s, t) ==
  IF s.initialized /\ s.db # "null" /\ ~s.upgradeLock
  THEN operation([s EXCEPT !.operationQueue = Append(@, t)], t)
  ELSE LET s1 == [s EXCEPT !.operationQueue = Append(@, t), !.tpc[t] = "queued",
                              !.buffered = @ \cup {t}]
       IN IF ~s1.isInitializing
          THEN IF s1.initialized THEN s1 ELSE [init(s1, 0) EXCEPT !.initCatch = t]
          ELSE s1

\* queueOperation whose Ready test also requires that no initialization (and so no
\* drain) is running: an operation arriving during a drain goes behind the buffer
queueOperationBehind(s, t) ==
  IF s.initialized /\ s.db # "null" /\ ~s.upgradeLock /\ ~s.isInitializing
  THEN operation(s, t)
  ELSE LET s1 == [s EXCEPT !.operationQueue = Append(@, t), !.tpc[t] = "queued",
                              !.buffered = @ \cup {t}]
       IN IF ~s1.isInitializing
          THEN IF s1.initialized THEN s1 ELSE [init(s1, 0) EXCEPT !.initCatch = t]
          ELSE s1

queueOperation(s, t) ==
  IF s.initialized /\ s.db # "null" /\ ~s.upgradeLock
  THEN operation(s, t)
  ELSE LET s1 == [s EXCEPT !.operationQueue = Append(@, t), !.tpc[t] = "queued",
                              !.buffered = @ \cup {t}]
       IN IF ~s1.isInitializing
          THEN IF s1.initialized THEN s1 ELSE [init(s1, 0) EXCEPT !.initCatch = t]
          ELSE s1

\* init with resolve() before the drain (line 144 before line 143): the callers of
\* init() are resolved when the store is open
openResolvedEarly(s) ==
  SettleAll([s EXCEPT !.db = "conn", !.disk = openDB(@), !.initialized = TRUE,
                      !.retryCount = 0, !.upgradeLock = FALSE, !.initPc = "loop",
                      !.initAwait = {}],
            s.initAwait, "resolved", "none")

\* openDB resolves: lines 82, 118-119 and the finally block, then init goes on to
\* executeQueuedOperations (line 143)
openResolved(s) ==
  [s EXCEPT !.db = "conn", !.disk = openDB(@), !.initialized = TRUE, !.retryCount = 0,
            !.upgradeLock = FALSE, !.initPc = "loop"]

\* openDB rejects: the catch block of initWithRetry, lines 120-129
openRejected(s) ==
  LET s1 == [s EXCEPT !.retryCount = @ + 1]
  IN IF s1.retryCount < maxRetries
     THEN [s1 EXCEPT !.initPc = "delay"]
     ELSE initRejected([s1 EXCEPT !.upgradeLock = FALSE])

\* The retry delay is over, lines 123-124 and 127-129: `return this.initWithRetry()`
\* runs the next attempt up to its await, and then the finally block of this attempt
\* releases the lock the next attempt has just taken
retry(s) == [initWithRetry(s) EXCEPT !.upgradeLock = FALSE]

\* the blocking callback without line 88: the handle is released and the flag is left
blockingKeepFlag(s) ==
  IF s.db # "null" THEN [s EXCEPT !.db = "null"] ELSE s

\* the blocking callback, lines 83-90
blocking(s) ==
  IF s.db # "null" THEN [s EXCEPT !.db = "null", !.initialized = FALSE] ELSE s

\* the terminated callback, lines 91-94; the connection is gone, and the requests in
\* flight on it fail
terminated(s) ==
  [s EXCEPT !.db = "null", !.initialized = FALSE,
            !.ioq = [n \in 1..Len(s.ioq) |-> [s.ioq[n] EXCEPT !.ok = FALSE]]]

\* The store serves the oldest request in flight
ioComplete(s) ==
  LET h == Head(s.ioq)
      q == s.treq[h.task]
      s1 == [s EXCEPT !.ioq = Tail(@)]
      f == StoreApply(s.files, q)
      raw == /\ IsTop(h.task)
             /\ q.op = "put"
             /\ \E n \in 1..Len(q.entry.assoc) : q.entry.assoc[n] \notin DOMAIN f
  IN IF h.ok
     THEN TaskEnd([s1 EXCEPT !.files = f, !.rawRefs = @ \/ raw], h.task, TRUE, "none",
                  StoreResult(s.files, q))
     ELSE TaskEnd(s1, h.task, FALSE, "aborted", <<>>)

----------------------------------------------------------------------------
(* The API methods, lines 158-262: each awaits waitForUpgrade and then calls *)
(* queueOperation with its operation body                                   *)

LeafReq(k, a) ==
  CASE k = "addFile" -> Req("put", a.id, a.entry)
    [] k = "getFile" -> Req("get", a.id, NoEntry)
    [] k = "getAllFiles" -> Req("getAll", "none", NoEntry)
    [] OTHER -> NoReq

Ready(s) == s.initialized /\ s.db # "null" /\ ~s.upgradeLock

Call(s, c, inv) ==
  waitForUpgrade([s EXCEPT !.kind[c] = inv.kind, !.arg[c] = inv.arg,
                           !.status[c] = "pending",
                           !.treq[Top(c)] = LeafReq(inv.kind, inv.arg),
                           !.early = IF Ready(s) THEN @ ELSE @ \cup {c},
                           !.afterClose = IF s.closes > 0 /\ s.db = "null"
                                          THEN @ \cup {c} ELSE @,
                           !.afterFail = IF s.failures > 0 /\ ~s.initialized
                                            /\ ~s.isInitializing
                                         THEN @ \cup {c} ELSE @], Top(c))

Inv(k, i, j, e) == [kind |-> k, arg |-> [id |-> i, entry |-> e, id2 |-> j]]

Puts(ids, names, assocs) ==
  {Inv("addFile", i, "none", Entry(i, n, a)) : i \in ids, n \in names, a \in assocs}
Gets(ids) == {Inv("getFile", i, "none", NoEntry) : i \in ids}
Deletes(ids) == {Inv("deleteFile", i, "none", NoEntry) : i \in ids}
Associates(hs, js) == {Inv("associateFiles", h, j, NoEntry) : h \in hs, j \in js}
Disassociates(hs, js) == {Inv("removeAssociation", h, j, NoEntry) : h \in hs, j \in js}
Lists(ids) == {Inv("getAssociatedFiles", i, "none", NoEntry) : i \in ids}
SizedPuts(ids, sizes) ==
  {Inv("addFile", i, "none", Sized(Entry(i, "b", <<>>), z[1], z[2])) : i \in ids, z \in sizes}
Wholes == {Inv("getAllFiles", "none", "none", NoEntry),
           Inv("getStorageUsage", "none", "none", NoEntry)}

----------------------------------------------------------------------------
(* The editor of the preview dialog (FilePreview.tsx).  The text in the editor is a *)
(* token: "d1" is a document in compact form, "d2" the same document as             *)
(* JSON.stringify(.., null, 2) prints it, "bad" a text that does not parse.         *)

Contents == {"d1", "d2", "bad"}

\* JSON.parse(content) does not throw / validateHTML(content).isValid, lines 114, 118-119
Valid(content) == content # "bad"
\* JSON.stringify(JSON.parse(content), null, 2), lines 114-115
Pretty(content) == IF content = "d1" THEN "d2" ELSE content
\* new Blob([finalContent]).size, line 125: the printed form is the longer one
BlobSize(content) == IF content = "d1" THEN 2 ELSE 4
\* compressBlob(blob), line 126, and the size of its result
compressBlob(content) == IF content = "d1" THEN "z1" ELSE "z2"
GzSize(content) == IF content = "d1" THEN 1 ELSE 3

\* new Date(): a time later than that of every earlier call
Now(s) == 1 + Cardinality({c \in Calls : s.status[c] # "unused"})

\* handleSave, lines 108-143: the entry it passes to fileDB.addFile (lines 128-136)
\* for the entry `file` the dialog was opened on and the text `content`
handleSave(file, content, now) ==
  LET finalContent == IF file.type = "application/json" THEN Pretty(content) ELSE content
  IN [id |-> file.id, name |-> file.name, type |-> file.type,
      size |-> BlobSize(finalContent), compressedSize |-> GzSize(finalContent),
      data |-> compressBlob(finalContent), createdAt |-> now, assoc |-> <<>>]

\* handleRename with a new time stamp in the record it writes
handleRenameFresh(file, newName, now) == [file EXCEPT !.name = newName, !.createdAt = now]

\* handleRename, part_011 lines 662-689: the entry it passes to fileDB.addFile (lines
\* 669-672) for the entry `file` its getFile returned
handleRename(file, newName, now) == [file EXCEPT !.name = newName]

----------------------------------------------------------------------------
(* Initial states: the object after construction (lines 21-31), over a store *)
(* that earlier sessions left behind                                        *)

Unlinked == StorePut(StorePut(EmptyStore, Entry("h1", "a", <<>>)), Entry("j1", "a", <<>>))
\* a container whose list names an entry that is gone (a put of another client, or
\* an associate that raced a delete, leaves this behind)
Dangling == StorePut(StorePut(EmptyStore, Entry("h1", "a", <<"j1", "j2">>)),
                     Entry("j1", "a", <<>>))
Linked == StorePut(StorePut(StorePut(EmptyStore, Entry("h1", "a", <<"j1", "j2">>)),
                            Entry("j1", "a", <<>>)), Entry("j2", "a", <<>>))

\* a container with one association and a data file, of different sizes
Measured == StorePut(StorePut(EmptyStore, Sized(Entry("h1", "a", <<"j1">>), 5, 3)),
                     Sized(Entry("j1", "a", <<>>), 3, 2))

\* a container with an empty list and two data files
Apart == StorePut(StorePut(StorePut(EmptyStore, Entry("h1", "a", <<>>)),
                           Entry("j1", "a", <<>>)), Entry("j2", "a", <<>>))

InitFrom(stores, older) ==
  /\ db = "null"
  /\ initialized = FALSE
  /\ isInitializing = FALSE
  /\ initPromise = "null"
  /\ operationQueue = <<>>
  /\ retryCount = 0
  /\ upgradeLock = FALSE
  /\ files \in stores
  /\ disk \in IF older
              THEN {d \in {NoDatabase, V1Schema, V2Schema} : d.store \/ files = EmptyStore}
              ELSE {IF files = EmptyStore THEN NoDatabase ELSE V2Schema}
  /\ ioq = <<>>
  /\ mq = <<>>
  /\ initPc = "idle"
  /\ drainCur = NoTask
  /\ initCatch = NoTask
  /\ initAwait = {}
  /\ kind = [c \in Calls |-> "none"]
  /\ arg = [c \in Calls |-> NoArg]
  /\ status = [c \in Calls |-> "unused"]
  /\ err = [c \in Calls |-> "none"]
  /\ ret = [c \in Calls |-> <<>>]
  /\ loc = [c \in Calls |-> NoLoc]
  /\ tpc = [t \in Tasks |-> "none"]
  /\ treq = [t \in Tasks |-> NoReq]
  /\ log = <<>>
  /\ pre = [c \in Calls |-> EmptyStore]
  /\ overlapped = {}
  /\ early = {}
  /\ afterClose = {}
  /\ afterFail = {}
  /\ buffered = {}
  /\ edited = [c \in Calls |-> NoEntry]
  /\ handler = [c \in Calls |-> "none"]
  /\ failures = 0
  /\ batched = FALSE
  /\ rawRefs = FALSE
  /\ chains = 0
  /\ attempts = 0
  /\ closes = 0

\* over a database this version of the application created
InitOver(stores) == InitFrom(stores, FALSE)

Init == InitOver({EmptyStore, Unlinked})
QueueInit == InitOver({EmptyStore})
GraphInit == InitOver({Unlinked, Linked})
ListInit == InitOver({EmptyStore, Unlinked, Linked, Dangling})
\* over a database this version or version 1 of the application created, or none
UpgradeInit == InitFrom({EmptyStore, Unlinked}, TRUE)
EditInit == InitOver({EmptyStore, Measured})
RaceInit == InitOver({Apart})

----------------------------------------------------------------------------
(* Actions *)

\* The drain loop runs on, in the microtasks of the step that settled the operation
\* it awaited, until it awaits the next operation or the queue is empty
RECURSIVE Drain(_)
Drain(s) == IF s.initPc = "loop" THEN Drain(executeQueuedOperations(s)) ELSE s

\* The step to the state x (computed once)
Step(x) == \E n \in {Drain(x)} : Apply(n)

\* Timers and store events run when no microtask is left
MacroTask == mq = <<>>

Used == {c \in Calls : status[c] # "unused"}
NextCall == Cardinality(Used) + 1

\* A caller invokes an API method
Submit ==
  \E inv \in Puts({"h1", "j1"}, {"b"}, {<<>>}) \cup Gets({"h1"}) \cup Deletes({"j1"})
             \cup Associates({"h1"}, {"j1"}) \cup Disassociates({"h1"}, {"j1"})
             \cup Lists({"h1"}) \cup Wholes :
    /\ Cardinality(Used) < MaxCalls
    /\ Step(Call(S, NextCall, inv))

QueueSubmit ==
  \E inv \in Puts(Ids, {"b"}, {<<>>}) \cup Gets({"h1"}) :
    /\ Cardinality(Used) < MaxQueueCalls
    /\ Step(Call(S, NextCall, inv))

\* A caller makes three puts of different entries in one run of code, with no await
\* between them, as the first calls on the object
BatchSubmit ==
  \E a \in Ids, b \in Ids, c \in Ids :
    /\ Used = {}
    /\ MaxQueueCalls >= 3
    /\ a # b /\ a # c /\ b # c
    /\ Step(Call(Call(Call([S EXCEPT !.batched = TRUE],
                         1, Inv("addFile", a, "none", Entry(a, "b", <<>>))),
                    2, Inv("addFile", b, "none", Entry(b, "b", <<>>))),
               3, Inv("addFile", c, "none", Entry(c, "b", <<>>))))

GraphSubmit ==
  \E inv \in Puts({"h1", "j1"}, {"b"}, {<<>>, <<"j1">>}) \cup Deletes(Ids)
             \cup Associates({"h1"}, {"j1", "j2"}) \cup Disassociates({"h1"}, {"j1", "j2"}) :
    /\ Cardinality(Used) < MaxGraphCalls
    /\ Step(Call(S, NextCall, inv))

ListSubmit ==
  \E inv \in Lists({"h1"}) \cup Gets({"h1", "j2"}) \cup Puts({"h1", "j2"}, {"b"}, {<<>>})
             \cup Deletes({"j1", "j2"}) :
    /\ Cardinality(Used) < MaxCalls
    /\ Step(Call(S, NextCall, inv))

RaceSubmit ==
  \E inv \in Associates({"h1"}, {"j1", "j2"}) :
    /\ Cardinality(Used) < MaxRaceCalls
    /\ Step(Call(S, NextCall, inv))

\* the puts of EditSubmit are uploads: they stamp the entry with new Date()
EditSubmit ==
  \E inv \in Wholes \cup Gets({"h1", "j1"}) \cup SizedPuts({"j1", "j2"}, {<<1, 1>>, <<4, 2>>})
             \cup Deletes({"j1"}) :
    /\ Cardinality(Used) < MaxCalls
    /\ Step(Call(S, NextCall,
                 IF inv.kind = "addFile"
                 THEN [inv EXCEPT !.arg.entry.createdAt = Now(S)] ELSE inv))

\* The user saves the text of the editor: handleSave runs on `file`, the entry that
\* a getFile of handlePreview returned when the dialog was opened
Save ==
  \E d \in Calls, content \in Contents :
    /\ Cardinality(Used) < MaxCalls
    /\ kind[d] = "getFile" /\ status[d] = "resolved" /\ ret[d] # <<>>
    /\ Valid(content)
    /\ LET file == ret[d][1]
           e == handleSave(file, content, Now(S))
       IN Step(Call([S EXCEPT !.edited[NextCall] = file, !.handler[NextCall] = "save"],
                    NextCall, Inv("addFile", file.id, "none", e)))

\* The user renames an entry: handleRename goes on, with the entry its getFile
\* returned, to the addFile of the renamed entry
Rename ==
  \E d \in Calls, newName \in Names :
    /\ Cardinality(Used) < MaxCalls
    /\ kind[d] = "getFile" /\ status[d] = "resolved" /\ ret[d] # <<>>
    /\ LET file == ret[d][1]
           e == handleRename(file, newName, Now(S))
       IN Step(Call([S EXCEPT !.edited[NextCall] = file, !.handler[NextCall] = "rename"],
                    NextCall, Inv("addFile", file.id, "none", e)))

\* A caller invokes init() (loadFiles does, before its first read)
InitCall(bound) ==
  /\ Cardinality(Used) < bound
  /\ Step(init([S EXCEPT !.kind[NextCall] = "init", !.status[NextCall] = "pending",
                          !.tpc[Top(NextCall)] = "done"], NextCall))

\* The 100 ms timer of waitForUpgrade fires and finds the lock free (lines 68-72)
Poll ==
  \E t \in Tasks :
    /\ MacroTask
    /\ tpc[t] = "poll"
    /\ ~upgradeLock
    /\ Step([S EXCEPT !.tpc[t] = "micro", !.mq = Append(@, t)])

\* The microtask after `await this.waitForUpgrade()`: queueOperation runs
Enter ==
  /\ mq # <<>>
  /\ Step(queueOperation([S EXCEPT !.mq = Tail(@)], Head(mq)))

OpenSucceeds ==
  /\ MacroTask
  /\ initPc = "open"
  /\ Step(openResolved(S))

OpenFails ==
  /\ MacroTask
  /\ initPc = "open"
  /\ Step(openRejected(S))

RetryTimer ==
  /\ MacroTask
  /\ initPc = "delay"
  /\ Step(retry(S))

IoComplete ==
  /\ MacroTask
  /\ ioq # <<>>
  /\ Step(ioComplete(S))

\* Another context opens the store at a higher version: versionchange fires on the
\* open connection
Blocking ==
  /\ MacroTask
  /\ db # "null"
  /\ closes < MaxCloses
  /\ Step([blocking(S) EXCEPT !.closes = @ + 1])

\* The browser closes the connection abnormally
Terminated ==
  /\ MacroTask
  /\ db # "null"
  /\ closes < MaxCloses
  /\ Step([terminated(S) EXCEPT !.closes = @ + 1])

Next ==
  \/ Submit \/ InitCall(MaxCalls) \/ Poll \/ Enter \/ OpenSucceeds \/ OpenFails
  \/ RetryTimer \/ IoComplete \/ Blocking \/ Terminated

Spec == Init /\ [][Next]_vars

QueueNext ==
  \/ QueueSubmit \/ BatchSubmit \/ InitCall(MaxQueueCalls) \/ Poll \/ Enter \/ OpenSucceeds \/ OpenFails
  \/ RetryTimer \/ IoComplete \/ Blocking \/ Terminated

QueueSpec == QueueInit /\ [][QueueNext]_vars

GraphNext ==
  \/ GraphSubmit \/ Poll \/ Enter \/ OpenSucceeds \/ OpenFails \/ RetryTimer
  \/ IoComplete \/ Blocking \/ Terminated

GraphSpec == GraphInit /\ [][GraphNext]_vars

UpgradeSpec == UpgradeInit /\ [][Next]_vars

EditNext ==
  \/ EditSubmit \/ Save \/ Rename \/ Poll \/ Enter \/ OpenSucceeds \/ OpenFails \/ RetryTimer
  \/ IoComplete \/ Blocking \/ Terminated

EditSpec == EditInit /\ [][EditNext]_vars

RaceNext ==
  \/ RaceSubmit \/ InitCall(MaxRaceCalls) \/ Poll \/ Enter \/ OpenSucceeds \/ OpenFails
  \/ RetryTimer \/ IoComplete \/ Blocking \/ Terminated

RaceSpec == RaceInit /\ [][RaceNext]_vars

ListNext ==
  \/ ListSubmit \/ Poll \/ Enter \/ OpenSucceeds \/ OpenFails \/ RetryTimer
  \/ IoComplete \/ Blocking \/ Terminated

ListSpec == ListInit /\ [][ListNext]_vars

----------------------------------------------------------------------------
(* Properties *)

InLog(c) == \E n \in 1..Len(log) : log[n] = c
Pos(c) == CHOOSE n \in 1..Len(log) : log[n] = c
Count(seq, x) == Cardinality({n \in 1..Len(seq) : seq[n] = x})
Running(c) == tpc[Top(c)] \in {"body", "io"}
Pending == {c \in Calls : status[c] = "pending"}

\* An initialization fails for good: the open attempt in flight is the last one
PermanentFailure == initPc = "open" /\ initPc' = "idle" /\ ~initialized'

\* C1: when an initialization fails permanently, every operation that is in the
\* buffer at that moment is rejected, with the initialization error.
C1_BufferedAllRejected ==
  [][PermanentFailure =>
       \A n \in 1..Len(operationQueue) :
         LET t == operationQueue[n]
         IN IsTop(t) => status'[t[1]] = "rejected" /\ err'[t[1]] = "init"]_vars

\* A step of the store, of a timer or of the event loop is still to come
StepAhead ==
  \/ mq # <<>>
  \/ ioq # <<>>
  \/ initPc \in {"open", "delay"}
  \/ \E t \in Tasks : tpc[t] = "poll" /\ ~upgradeLock

\* C2: every call eventually resolves or rejects: a call is never left pending in a
\* state where nothing but a new call can happen.
C2_NoCallerWaitsForever == Pending # {} => StepAhead

\* C3: at most one open/retry chain is active at any time, and the operations
\* buffered during a chain all settle with its outcome: once it is over, none of
\* them is both still buffered and not rejected with its error.
C3_OneChainOneOutcome ==
  /\ chains <= 1
  /\ chains = 0 =>
       \A c \in Calls : tpc[Top(c)] = "queued" => status[c] = "rejected" /\ err[c] = "init"

\* The buffer is consumed from the front: the operations a step takes from it are
\* its first ones, and the rest keep their order
FrontConsumed ==
  \E k \in 0..Len(operationQueue) :
    /\ \A n \in 1..k : tpc'[operationQueue[n]] # "queued"
    /\ Len(operationQueue') >= Len(operationQueue) - k
    /\ \A n \in (k + 1)..Len(operationQueue) : operationQueue'[n - k] = operationQueue[n]

\* An operation is taken from the buffer only when the one the loop awaited has
\* settled, and the loop awaits the operation it has started
OneAtATime ==
  \A t \in Tasks :
    tpc[t] = "queued" /\ tpc'[t] # "queued" =>
      /\ drainCur = NoTask \/ tpc'[drainCur] = "done" \/ drainCur = t
      /\ tpc'[t] \in {"body", "io"} => drainCur' = t

\* The three puts of a batch run in the order they were made, one after the other,
\* and once all three have resolved their entries are stored
BatchInOrder ==
  batched =>
    /\ \A c \in 1..3, d \in 1..3 :
         c < d /\ InLog(d) => InLog(c) /\ Pos(c) < Pos(d) /\ ~Running(c)
    /\ (\A c \in 1..3 : status[c] = "resolved") =>
         \A c \in 1..3 : arg[c].id \in DOMAIN files /\ files[arg[c].id] = arg[c].entry

\* C4: after a successful initialization the buffered operations are drained in
\* arrival order, each awaited to completion before the next starts; put(a), put(b),
\* put(c) made with no await between them on a fresh store run in that order and
\* all three entries are present afterwards.
C4_DrainInOrder == [][FrontConsumed /\ OneAtATime /\ BatchInOrder']_vars

C4_Witness ==
  /\ batched
  /\ \A c \in 1..3 : status[c] = "resolved"
  /\ log = <<1, 2, 3>>
  /\ DOMAIN files = Ids

\* C5: two operations both submitted while the store was not Ready run in submission
\* order, the earlier one finishing before the later one starts.
C5_EarlyCallsInOrder ==
  \A c \in early, d \in early :
    c < d /\ InLog(d) => InLog(c) /\ Pos(c) < Pos(d) /\ ~Running(c)

\* C6: the body of a call whose promise was rejected with the initialization error
\* is never run.
C6_RejectedNeverRuns ==
  \A c \in Calls : status[c] = "rejected" /\ err[c] = "init" => ~InLog(c)

\* C7: the body of a call is started at most once, and the body of a call that
\* resolved was started exactly once.
C7_ExactlyOnce ==
  \A c \in Calls :
    /\ Count(log, c) <= 1
    /\ status[c] = "resolved" /\ kind[c] # "init" => Count(log, c) = 1

C7_Witness ==
  /\ closes = 1
  /\ Len(log) = 2
  /\ \E c \in Calls : status[c] = "resolved" /\ kind[c] \in Composite

NoDangling ==
  \A i \in DOMAIN files :
    \A n \in 1..Len(files[i].assoc) : files[i].assoc[n] \in DOMAIN files

\* C8 as stated: in every state reached by any sequence of calls, interleaved ones
\* included, every associated id is the id of a stored entry.
C8_NoDanglingEver == NoDangling

\* C8: in every state reached by calls whose bodies do not overlap, and whose puts
\* store no association to an absent entry, every associated id is the id of a
\* stored entry.
C8_NoDanglingSequential == overlapped = {} /\ ~rawRefs => NoDangling

C8_Witness ==
  /\ overlapped = {}
  /\ ~rawRefs
  /\ Len(log) = 2
  /\ \E c \in Calls : kind[c] = "deleteFile" /\ status[c] = "resolved"
                      /\ arg[c].id \in {"j1", "j2"}
  /\ \E c \in Calls : kind[c] = "associateFiles" /\ status[c] = "resolved"

\* The store after the delete of entry i: i is gone, and gone from every list
RECURSIVE Without(_, _)
Without(seq, x) ==
  IF seq = <<>> THEN <<>>
  ELSE IF Head(seq) = x THEN Without(Tail(seq), x)
  ELSE <<Head(seq)>> \o Without(Tail(seq), x)
Cascade(f, i) == [j \in DOMAIN f \ {i} |-> [f[j] EXCEPT !.assoc = Without(@, i)]]

Resolves(c) == status[c] = "pending" /\ status'[c] = "resolved"

\* C9: when remove(A) completes with no other operation interleaved, A is absent, A
\* is gone from every association list, and nothing else has changed.
C9_DeleteCascades ==
  [][\A c \in Calls :
       kind[c] = "deleteFile" /\ Resolves(c) /\ c \notin overlapped' =>
         files' = Cascade(pre[c], arg[c].id)]_vars

C9_Witness ==
  /\ \E c \in Calls : /\ kind[c] = "deleteFile" /\ arg[c].id = "j1"
                      /\ status[c] = "resolved" /\ c \notin overlapped
  /\ DOMAIN files = {"h1", "j2"}
  /\ files["h1"].assoc = <<"j2">>

\* C10: associate(C, A) on two existing entries leaves A exactly once in
\* C.associatedFiles, also when A was associated before.
C10_AssociateIdempotent ==
  [][\A c \in Calls :
       kind[c] = "associateFiles" /\ Resolves(c) /\ c \notin overlapped' =>
         /\ arg[c].id \in DOMAIN files'
         /\ Count(files'[arg[c].id].assoc, arg[c].id2) = 1]_vars

\* The cascade rewrite that the body of deleteFile call c awaits (line 190) fails in
\* this step: its store request is aborted, or the drain runs it with the handle
\* released, or the initialization it started fails for good
CascadeFails(c) ==
  LET u == <<c, 1>>
  IN /\ kind[c] = "deleteFile"
     /\ loc[c].step = "cascade"
     /\ tpc[Top(c)] = "body"
     /\ treq[u].op = "put"
     /\ \/ /\ tpc[u] = "io" /\ tpc'[u] # "io"
           /\ ioq # <<>> /\ Head(ioq) = [task |-> u, ok |-> FALSE]
        \/ tpc[u] = "queued" /\ tpc'[u] # "queued" /\ db' = "null"
        \/ PermanentFailure /\ initCatch = u

\* C11: if a cascade rewrite of remove(id) fails, the call is rejected, its body ends
\* there (the delete of the entry is not issued), and the entry is not deleted.
C11_FailClosedDelete ==
  [][\A c \in Calls :
       CascadeFails(c) =>
         /\ status'[c] = "rejected"
         /\ tpc'[Top(c)] = "done"
         /\ \A n \in 1..Len(ioq') : ioq'[n].task # Top(c)
         /\ c \notin overlapped' /\ arg[c].id \in DOMAIN files =>
              arg[c].id \in DOMAIN files']_vars

\* A rejected remove(j1) whose cascade rewrite of h1, buffered after a close, is
\* still in the buffer; j1 is still stored
C11_Witness ==
  \E c \in Calls :
    /\ kind[c] = "deleteFile" /\ arg[c].id = "j1"
    /\ status[c] = "rejected"
    /\ tpc[Top(c)] = "done"
    /\ tpc[<<c, 1>>] = "queued" /\ treq[<<c, 1>>].op = "put"
    /\ "j1" \in DOMAIN files

\* C12: an operation submitted after a version conflict has released the handle
\* starts a fresh initialization and runs against the re-opened store, also when the
\* conflict came while a drain was running: with no further conflict, it never fails
\* with the 'not initialized' error.
C12_ReopenedForNextCall ==
  closes <= 1 => \A c \in afterClose : err[c] # "notInit"

\* C13: every initialization makes at most 3 open attempts and reports permanent
\* failure only after 3 attempts have failed, also an initialization that follows
\* one that failed permanently.
C13_ThreeAttemptsEachTime ==
  [][/\ attempts' <= maxRetries
     /\ PermanentFailure => attempts = maxRetries]_vars

\* The calls of the repository methods submitted when the store was Ready
ReadyCalls == {c \in Calls : status[c] # "unused" /\ kind[c] # "init" /\ c \notin early}

\* C14: an operation submitted when the store is Ready is never buffered and never
\* waits for the lock; it is started in the run of code that submitted it (before
\* any timer or store event), also while a drain is running.
C14_ReadyPathImmediate ==
  \A c \in ReadyCalls :
    /\ tpc[Top(c)] \notin {"queued", "poll"}
    /\ \A n \in 1..Len(operationQueue) : operationQueue[n] # Top(c)
    /\ mq = <<>> => InLog(c)

\* During a drain, a call submitted when Ready has started before, and has resolved
\* before, a buffered call that was submitted earlier
C14_Witness ==
  \E c \in ReadyCalls, d \in early :
    /\ d < c
    /\ status[c] = "resolved"
    /\ status[d] = "pending"
    /\ InLog(c) /\ InLog(d) /\ Pos(c) < Pos(d)

\* C15: after a successful initialization the 'files' store exists with all four
\* indexes, whatever was on disk before (nothing, or a version 1 database).
C15_UpgradedSchema ==
  initialized /\ db # "null" => disk.store /\ disk.indexes = IndexNames

\* C16: no operation dereferences a released (null) handle: a body that resumes after
\* the handle was released re-checks it or goes through the queue again, so no call
\* ever fails with the TypeError of a call on null.
C16_NoNullDereference ==
  \A c \in Calls : err[c] # "typeError"

\* The body of call c ends in this step, and no other body ran while it ran
EndsAlone(c) ==
  /\ status[c] = "pending"
  /\ tpc[Top(c)] = "body" /\ tpc'[Top(c)] = "done"
  /\ c \notin overlapped'

NotFound == {"htmlNotFound", "jsonNotFound"}

\* C17: associate(C, D) never resolves when C or D does not exist; with the store
\* open throughout it rejects with the not-found error of the missing one; and when
\* it rejects with a not-found error the store is as it was when the call started.
C17_AssociateNotFound ==
  [][\A c \in Calls :
       kind[c] = "associateFiles" /\ EndsAlone(c) =>
         LET noC == arg[c].id \notin DOMAIN pre[c]
             noD == arg[c].id2 \notin DOMAIN pre[c]
         IN /\ noC \/ noD => status'[c] = "rejected"
            /\ noC /\ closes = 0 => err'[c] = "htmlNotFound"
            /\ ~noC /\ noD /\ closes = 0 => err'[c] = "jsonNotFound"
            /\ err'[c] \in NotFound => (noC \/ noD) /\ files' = pre[c]]_vars

C17_Witness ==
  \E c \in Calls :
    /\ kind[c] = "associateFiles" /\ arg[c].id = "h1" /\ arg[c].id2 = "j2"
    /\ status[c] = "rejected" /\ err[c] = "jsonNotFound"
    /\ c \notin overlapped
    /\ DOMAIN files = {"h1", "j1"} /\ files["h1"].assoc = <<>>

\* C18: disassociate(C, D) on an existing container, run alone, leaves the store as
\* it was at its start but for D removed from C's list (unchanged when D is not in
\* it); with the store open throughout it succeeds.
C18_DisassociateFrame ==
  [][\A c \in Calls :
       kind[c] = "removeAssociation" /\ EndsAlone(c) /\ arg[c].id \in DOMAIN pre[c] =>
         /\ closes = 0 => status'[c] = "resolved"
         /\ status'[c] = "resolved" =>
              files' = [pre[c] EXCEPT ![arg[c].id].assoc = Without(@, arg[c].id2)]]_vars

C18_Witness ==
  \E c \in Calls :
    /\ kind[c] = "removeAssociation" /\ arg[c].id = "h1" /\ arg[c].id2 = "j1"
    /\ status[c] = "resolved" /\ c \notin overlapped
    /\ Len(log) = 1
    /\ DOMAIN files = Ids /\ files["h1"].assoc = <<"j2">>

Range(seq) == {seq[n] : n \in 1..Len(seq)}

\* C19: listAssociated(C), run alone, returns exactly the stored entries whose ids
\* are in C's list and exist; ids that do not resolve are dropped without an error
\* (with the store open throughout the call resolves); a missing container or an
\* empty list gives the empty list.
C19_ListAssociated ==
  [][\A c \in Calls :
       kind[c] = "getAssociatedFiles" /\ EndsAlone(c) =>
         LET ids == IF arg[c].id \in DOMAIN files' THEN files'[arg[c].id].assoc ELSE <<>>
         IN /\ closes = 0 => status'[c] = "resolved"
            /\ status'[c] = "resolved" =>
                 /\ Range(ret'[c]) = {files'[i] : i \in Range(ids) \cap DOMAIN files'}
                 /\ Len(ret'[c]) <= Len(ids)]_vars

\* the list of h1 names j1 and j2, j2 is gone, and the call has returned j1's entry
C19_Witness ==
  \E c \in Calls :
    /\ kind[c] = "getAssociatedFiles" /\ status[c] = "resolved" /\ c \notin overlapped
    /\ files = Dangling
    /\ ret[c] = <<files["j1"]>>

\* C20: a put that resolves has replaced the whole record with its id and left every
\* other entry as it was; and a get(e.id) that runs right after a put(e), no body
\* overlapping either, returns e, whether or not the id was stored before.
C20_UpsertRoundTrip ==
  [][/\ \A c \in Calls :
          kind[c] = "addFile" /\ Resolves(c) =>
            /\ DOMAIN files' = DOMAIN files \cup {arg[c].id}
            /\ files'[arg[c].id] = arg[c].entry
            /\ \A i \in DOMAIN files \ {arg[c].id} : files'[i] = files[i]
     /\ \A c \in Calls, d \in Calls :
          /\ kind[c] = "addFile" /\ status[c] = "resolved"
          /\ kind[d] = "getFile" /\ arg[d].id = arg[c].id /\ Resolves(d)
          /\ InLog(c) /\ InLog(d) /\ Pos(d) = Pos(c) + 1
          /\ {c, d} \cap overlapped' = {}
          => ret'[d] = <<arg[c].entry>>]_vars

\* h1 was stored with two associations; put(h1) without them, then get(h1)
C20_Witness ==
  /\ kind[1] = "addFile" /\ status[1] = "resolved" /\ arg[1].id = "h1"
  /\ kind[2] = "getFile" /\ status[2] = "resolved" /\ arg[2].id = "h1"
  /\ log = <<1, 2>> /\ overlapped = {}
  /\ ret[2] = <<Entry("h1", "b", <<>>)>>
  /\ DOMAIN files = Ids

RECURSIVE SumOver(_, _, _)
SumOver(f, D, g) ==
  IF D = {} THEN 0
  ELSE LET i == CHOOSE j \in D : TRUE
       IN (IF g = "size" THEN f[i].size ELSE f[i].compressedSize) + SumOver(f, D \ {i}, g)

\* C22: storageUsage() resolves with total = the sum of size, and compressed = the sum
\* of compressedSize, over the entries that are stored when it reads them (the ones
\* listAll returns), and with {0, 0} on an empty store.
C22_UsageIsSum ==
  [][\A c \in Calls :
       kind[c] = "getStorageUsage" /\ Resolves(c) =>
         /\ ret'[c] = <<[total |-> SumOver(files', DOMAIN files', "size"),
                         compressed |-> SumOver(files', DOMAIN files', "compressedSize")]>>
         /\ files' = EmptyStore => ret'[c] = <<[total |-> 0, compressed |-> 0]>>]_vars

\* usage of the store that holds h1 (5, 3), j1 (3, 2) and the j2 (4, 2) a put added
C22_Witness ==
  \E c \in Calls :
    /\ kind[c] = "getStorageUsage" /\ status[c] = "resolved"
    /\ DOMAIN files = Ids
    /\ ret[c] = <<[total |-> 12, compressed |-> 7]>>

\* C23: every initialization finishes: while isInitializing is true a step of the
\* store, of a timer or of the event loop is still to come; the drain loop is never
\* left awaiting an operation whose nested repository call sits in the buffer
\* behind it, also when a version conflict closes the store during the drain.
C23_InitFinishes == isInitializing => StepAhead

\* C24: a deleted entry stays deleted: once remove(X) has resolved, and as long as no
\* caller has submitted a put of an entry with id X, X is not stored; the cascade
\* rewrite of another remove, working from its earlier snapshot, does not bring X back.
C24_DeletedStaysDeleted ==
  \A c \in Calls :
    /\ kind[c] = "deleteFile" /\ status[c] = "resolved"
    /\ \A d \in Calls : kind[d] = "addFile" => arg[d].id # arg[c].id
    => arg[c].id \notin DOMAIN files

\* C25: read-modify-write sequences on the Ready path are not mutually exclusive.
\* associate(C, B) writes back the list it read plus B: when associate(C, A) has
\* resolved (A # B) and A is not in the list that associate(C, B) read, A is not in
\* C's list once associate(C, B) resolves -- the update of A is lost, although both
\* calls were submitted after Ready and both resolve.
C25_LostUpdate ==
  [][\A c \in ReadyCalls, d \in ReadyCalls :
       /\ kind[c] = "associateFiles" /\ kind[d] = "associateFiles"
       /\ arg[c].id = arg[d].id /\ arg[c].id2 # arg[d].id2
       /\ status[c] = "resolved" /\ Resolves(d)
       /\ loc[d].step = "put" /\ ~Includes(loc[d].snap[1].assoc, arg[c].id2)
       => /\ arg[d].id \in DOMAIN files'
          /\ files'[arg[d].id].assoc = Append(loc[d].snap[1].assoc, arg[d].id2)
          /\ ~Includes(files'[arg[d].id].assoc, arg[c].id2)]_vars

\* associate(h1, j1) and associate(h1, j2), both submitted when the store was Ready,
\* have both resolved, and h1's list holds one of the two
C25_Witness ==
  \E c \in ReadyCalls, d \in ReadyCalls :
    /\ kind[c] = "associateFiles" /\ arg[c].id = "h1" /\ arg[c].id2 = "j1"
    /\ kind[d] = "associateFiles" /\ arg[d].id = "h1" /\ arg[d].id2 = "j2"
    /\ status[c] = "resolved" /\ status[d] = "resolved"
    /\ closes = 0
    /\ DOMAIN files = Ids
    /\ Len(files["h1"].assoc) = 1

\* queueOperation runs for the operation of call c (the microtask after its
\* waitForUpgrade) while no initialization is in progress
EntersIdle(c) ==
  /\ mq # <<>> /\ Head(mq) = Top(c) /\ mq' = Tail(mq)
  /\ ~isInitializing

\* C26: a permanent failure leaves the manager uninitialized (no handle, initialized,
\* isInitializing and upgradeLock false, no init promise); an operation submitted in
\* that state starts a new initialization when none is in progress; and with the
\* store open from then on, such a put, get or list operation is rejected only with
\* the error of a failed initialization, and after a successful one it is either
\* waiting in the buffer of the running drain, or running, or resolved, and a step
\* that takes it further is still to come.
C26_RecoversAfterFailure ==
  [][/\ PermanentFailure =>
          /\ db' = "null" /\ ~initialized' /\ ~isInitializing' /\ ~upgradeLock'
          /\ initPromise' = "null"
     /\ \A c \in afterFail :
          /\ EntersIdle(c) =>
               /\ isInitializing' /\ initPromise' = "pending" /\ initPc' = "open"
               /\ chains' = 1 /\ attempts' = 1
               /\ tpc'[Top(c)] = "queued"
          /\ kind[c] \in Leaf /\ closes' = 0 =>
               /\ status'[c] = "rejected" => err'[c] = "init"
               /\ status'[c] = "pending" /\ initialized' =>
                    /\ StepAhead'
                    /\ \/ tpc'[Top(c)] = "queued" /\ initPc' = "drain"
                       \/ tpc'[Top(c)] = "io" /\ InLog(c)']_vars

\* an initialization has failed for good, and a put submitted after that has started
\* another one, which succeeded: the put has run and resolved
C26_Witness ==
  \E c \in afterFail :
    /\ failures = 1 /\ closes = 0
    /\ kind[c] = "addFile" /\ status[c] = "resolved" /\ InLog(c)
    /\ initialized /\ db = "conn" /\ ~isInitializing
    /\ arg[c].id \in DOMAIN files

\* The operation of call c, which the drain loop awaits, throws in this step
Throws(c) ==
  /\ drainCur = Top(c)
  /\ status[c] = "pending" /\ status'[c] = "rejected"

\* C27: when a buffered operation throws while it is drained, its caller is rejected
\* with that error and no other caller is (but one whose own operation, or a
\* repository call made by it, the drain goes on to run in the same step); the handle
\* and the initialized flag are as they were;
\* the drain goes on with the rest of the buffer, from the front; and the callers of
\* init() are not rejected: they are resolved if the buffer is then empty.
C27_DrainIsolatesErrors ==
  [][\A c \in Calls :
       Throws(c) =>
         /\ err'[c] \in {"notInit", "aborted", "typeError", "htmlNotFound", "jsonNotFound"}
         /\ tpc'[Top(c)] = "done"
         /\ \A d \in Calls \ {c} :
              status'[d] = "rejected" /\ status[d] # "rejected" =>
                /\ \E t \in Tasks : t[1] = d /\ tpc[t] = "queued" /\ tpc'[t] # "queued"
                /\ InLog(d)' /\ err'[d] # "init"
         /\ db' = db /\ initialized' = initialized
         /\ FrontConsumed
         /\ \/ /\ isInitializing' /\ initPc' = "drain" /\ drainCur' # NoTask
               /\ drainCur' # Top(c) /\ initAwait' = initAwait
               /\ \A d \in initAwait : status'[d] = "pending"
            \/ /\ ~isInitializing' /\ initPc' = "idle" /\ operationQueue' = <<>>
               /\ \A d \in initAwait : status'[d] = "resolved"]_vars

\* associate(h1, j1) was drained on an empty store and rejected with its not-found
\* error; the put buffered behind it has run and resolved; the store is Ready
C27_Witness ==
  /\ kind[1] = "associateFiles" /\ status[1] = "rejected" /\ err[1] = "htmlNotFound"
  /\ kind[2] = "addFile" /\ status[2] = "resolved"
  /\ early = {1, 2} /\ log = <<1, 2>>
  /\ initialized /\ db = "conn" /\ ~isInitializing
  /\ closes = 0

\* C28: a save of the editor changes only the payload and the two size fields of the
\* entry: when the put made by handleSave resolves, the name, the type and the
\* associatedFiles of the stored entry are what they were before the put.
C28_SaveKeepsTheRest ==
  [][\A c \in Calls :
       handler[c] = "save" /\ Resolves(c) /\ arg[c].id \in DOMAIN files =>
         /\ files'[arg[c].id].name = files[arg[c].id].name
         /\ files'[arg[c].id].type = files[arg[c].id].type
         /\ files'[arg[c].id].assoc = files[arg[c].id].assoc]_vars

\* C29: in every reachable state, initialized = true implies that the handle is not
\* null: the callbacks and the failure path of init clear both together, and
\* initialized is set in the run of code that assigns the handle.
C29_InitializedHasHandle == initialized => db # "null"

\* after a version conflict released the handle, a call has had the store re-opened
\* and has resolved
C29_Witness ==
  /\ closes = 1
  /\ initialized /\ db = "conn"
  /\ \E c \in afterClose : status[c] = "resolved" /\ kind[c] # "init"

\* The operation of task t has been executed and has settled
Replayed(t) ==
  /\ tpc[t] = "done"
  /\ IsTop(t) => status[t[1]] # "pending" /\ InLog(t[1])

\* C30 as stated: a promise returned by init() resolves only when every operation
\* that was put in the buffer has been executed and has settled, and the buffer is
\* empty; and while the drain runs isInitializing is true and no other
\* initialization starts.
C30_ResolvesAfterReplay ==
  [][/\ \A c \in Calls :
          kind'[c] = "init" /\ status[c] # "resolved" /\ status'[c] = "resolved" =>
            /\ operationQueue' = <<>>
            /\ \A t \in buffered' : Replayed(t)'
     /\ initPc = "drain" =>
          /\ isInitializing /\ chains = 1
          /\ attempts' = attempts /\ chains' <= 1
          /\ initPc' = "idle" => ~isInitializing' /\ operationQueue' = <<>>]_vars

\* C30: the promise of an init() call that started the initialization or joined it
\* (one that awaits initPromise) resolves only when every operation that was put in
\* the buffer has been executed and has settled, and the buffer is empty; and while
\* the drain runs isInitializing is true and no other initialization starts.
C30_JoinedInitResolvesAfterReplay ==
  [][/\ \A c \in initAwait :
          status[c] = "pending" /\ status'[c] = "resolved" =>
            /\ operationQueue' = <<>>
            /\ \A t \in buffered' : Replayed(t)'
     /\ initPc = "drain" =>
          /\ isInitializing /\ chains = 1
          /\ attempts' = attempts /\ chains' <= 1
          /\ initPc' = "idle" => ~isInitializing' /\ operationQueue' = <<>>]_vars

\* init() started the initialization, two puts were buffered during the open attempt
\* and replayed in order, and then the promise of init() resolved
C30_Witness ==
  /\ kind[1] = "init" /\ status[1] = "resolved"
  /\ buffered = {Top(2), Top(3)}
  /\ log = <<2, 3>>
  /\ status[2] = "resolved" /\ status[3] = "resolved"
  /\ operationQueue = <<>> /\ ~isInitializing /\ initialized
  /\ closes = 0 /\ failures = 0

\* C31 as stated: rename and edit save both write the entry back with a fresh
\* createdAt: when the put of either resolves, the stored createdAt differs from the
\* one of the entry the handler worked on.
C31_FreshCreatedAt ==
  [][\A c \in Calls :
       handler[c] \in {"save", "rename"} /\ Resolves(c) =>
         files'[arg[c].id].createdAt # edited[c].createdAt]_vars

\* C31: both handlers write the entry back through the generic upsert. The edit save
\* writes a fresh createdAt: after it the stored createdAt is later than the one of
\* the entry that was edited. The rename writes back the entry it read with the new
\* name only: after it the stored createdAt is the one it read.
C31_SaveStampsRenameKeeps ==
  [][\A c \in Calls :
       handler[c] \in {"save", "rename"} /\ Resolves(c) =>
         /\ kind[c] = "addFile"
         /\ files'[arg[c].id] = arg[c].entry
         /\ handler[c] = "save" => files'[arg[c].id].createdAt > edited[c].createdAt
         /\ handler[c] = "rename" =>
              files'[arg[c].id] = [edited[c] EXCEPT !.name = arg[c].entry.name]]_vars

\* h1 was read and renamed from "a" to "b": it keeps its createdAt and its list
C31_Witness ==
  \E c \in Calls :
    /\ handler[c] = "rename" /\ status[c] = "resolved"
    /\ edited[c].name = "a" /\ arg[c].id = "h1"
    /\ "h1" \in DOMAIN files
    /\ files["h1"].name = "b"
    /\ files["h1"].createdAt = edited[c].createdAt
    /\ files["h1"].assoc = <<"j1">>

\* An open/retry chain is between the start of an open attempt and its end: an openDB
\* call is in flight, or the retry delay is running
Opening == initPc \in {"open", "delay"}

\* The operation body of task t starts in this step
BodyStarts(t) == tpc[t] \in {"poll", "micro", "queued"} /\ tpc'[t] \in {"body", "io", "done"}

\* Call c is made in this step
Arrives(c) == status[c] = "unused" /\ status'[c] = "pending" /\ kind'[c] # "init"

\* the lock is held for the whole chain of open attempts
LockHeldOverChain == Opening => upgradeLock

\* no operation body starts while the lock is held
NoBodyUnderLock == \A t \in Tasks : BodyStarts(t) => ~upgradeLock'

\* a caller arriving during the chain waits in waitForUpgrade
ArrivalsWait == \A c \in Calls : Arrives(c) /\ Opening => tpc'[Top(c)] = "poll"

\* queueOperation runs the operation at once only when the lock is free
ImmediateOnlyUnlocked == \A t \in Tasks : tpc[t] = "micro" /\ BodyStarts(t) => ~upgradeLock

\* C32: upgradeLock is held from the start of an open attempt, through any retry
\* delay, until the chain of attempts ends, and no operation body starts while it is
\* held: a caller arriving in that window waits in waitForUpgrade, and queueOperation
\* runs an operation at once only when the lock is free.
C32_LockCoversOpenChain ==
  [][LockHeldOverChain /\ NoBodyUnderLock /\ ArrivalsWait /\ ImmediateOnlyUnlocked]_vars

====
